---- MODULE Spec2Model ----
(***************************************************************************)
(* State-machine model of the task list screen (HomeScreen) and of the     *)
(* expense form (NewExpenseScreen) of the poket-app client, together with   *)
(* the remote resource the screens talk to through `api`.                   *)
(*                                                                         *)
(* Every `await api.x(...)` of the source is split where the JavaScript     *)
(* run-to-completion semantics splits it: the code before the await is one  *)
(* action (the request is put in flight), the remote side handling the      *)
(* request is one action, and the continuation after the await (the try     *)
(* body's rest, or the catch block, followed by the finally block) is one   *)
(* action.  Requests in flight settle in any order.                         *)
(***************************************************************************)
EXTENDS Integers, Sequences, FiniteSets, Bags, TLC

\* ---------------------------------------------------------------- bounds
MaxInflight == 2       \* task requests (getTasks/update/delete) in flight
MaxCatInflight == 1    \* getCategories requests in flight

\* the categories the remote resource answers getCategories with
RemoteCategories == <<1>>
\* the collections the remote resource may hold when the screen mounts: two
\* tasks of either status, the second one with a category_id that matches no
\* category of RemoteCategories
RemoteTasks ==
  {<<[id |-> 1, status |-> a, category_id |-> 1],
     [id |-> 2, status |-> b, category_id |-> 2]>> : a \in BOOLEAN, b \in BOOLEAN}
TaskIds == UNION {{c[k].id : k \in DOMAIN c} : c \in RemoteTasks}
\* selectedCategory === null and the id of the "All Tasks" entry
Null == 0
\* the id of a request or a step that is about no task
NoId == Null

VARIABLES
  tasks,             \* useState([])    part_000:20
  categories,        \* useState([])    part_000:21
  selectedCategory,  \* useState(null)  part_000:22
  isLoading,         \* useState(true)  part_000:23
  isUpdating,        \* useState(false) part_000:24
  dialog,            \* the Alert.alert confirmation that is open, or NoDialog
  wired,             \* whose handlers the buttons of a card call
  remote,            \* the task collection held by the remote resource
  inflight,          \* task requests issued and not yet settled (a bag)
  catInflight,       \* getCategories requests issued and not yet settled
  title,             \* NewExpenseScreen useState  NewExpenseScreen.js:23
  amount,            \* NewExpenseScreen useState  NewExpenseScreen.js:24
  isEditing,         \* NewExpenseScreen.js:21
  formIsLoading,     \* NewExpenseScreen useState(false) NewExpenseScreen.js:37
  saveInflight,      \* createExpense/updateExpense requests not yet settled
  onForm,            \* FALSE once navigation.goBack() has run
  last               \* what the last step showed and called

homeVars == <<tasks, categories, selectedCategory, isLoading, isUpdating,
              dialog, wired, remote, inflight, catInflight>>
formVars == <<title, amount, isEditing, formIsLoading, saveInflight, onForm>>
vars == <<homeVars, formVars, last>>

\* ------------------------------------------------------- sequence helpers
\* Array.prototype.map
Map(s, f(_)) == [i \in DOMAIN s |-> f(s[i])]
\* Array.prototype.filter
Filter(s, p(_)) == SelectSeq(s, p)
RemoveAt(s, i) == SubSeq(s, 1, i - 1) \o SubSeq(s, i + 1, Len(s))
Ids(s) == {s[i].id : i \in DOMAIN s}
Has(s, id) == id \in Ids(s)
Find(s, id) == s[CHOOSE i \in DOMAIN s : s[i].id = id]

NoDialog == [handler |-> "none", id |-> NoId]

\* Alert.alert(title, message)
Alert(ttl, message) == [title |-> ttl, message |-> message]
NoAlert == Alert("", "")
\* the confirmation of both delete handlers
DeleteConfirmation == Alert("Delete Task", "Are you sure you want to delete this task?")
\* what one step shows and calls: the Alert, the calls to the notification
\* service, whether the call a mutation made to it failed, and whether
\* api.createExpense / api.updateExpense was called
Step(alert, notified) ==
  [alert |-> alert, notified |-> notified, reminderFailed |-> FALSE,
   called |-> FALSE]
\* the promise a call to the notification service returns: fulfilled (TRUE) or
\* rejected (FALSE)
ReminderOutcomes == BOOLEAN

\* ------------------------------------------------------------ derived view
\* variant: the filter without the `selectedCategory === null` alternative
filteredTasks_strict ==
  Filter(tasks, LAMBDA task : task.category_id = selectedCategory)

\* tasks.filter(task => selectedCategory === null ||
\*                      task.category_id === selectedCategory)
filteredTasks ==
  Filter(tasks, LAMBDA task :
           selectedCategory = Null \/ task.category_id = selectedCategory)

\* the screen shows only the spinner while isLoading, and an open Alert is modal
CardsShown == ~isLoading /\ dialog = NoDialog
Rendered == {filteredTasks[i] : i \in DOMAIN filteredTasks}

\* variant: the section lists every filtered task
InProgress_unfiltered == filteredTasks

\* the cards of the 'In Progress' section: filteredTasks.filter(task => !task.status)
InProgress == Filter(filteredTasks, LAMBDA task : ~task.status)
\* the cards of the 'Completed' section: filteredTasks.filter(task => task.status)
Completed == Filter(filteredTasks, LAMBDA task : task.status)

\* ---------------------------------------------------------------- requests
\* a call of api.getTasks / api.updateTaskStatus / api.deleteTask that has not
\* settled: the arguments, the handler awaiting it with the values it closed
\* over (id, status), whether the remote resource has handled it, its response
Request(api, handler, id, status) ==
  [api |-> api, handler |-> handler, id |-> id, status |-> status,
   newStatus |-> ~status, stage |-> "sent", payload |-> <<>>]

\* HomeScreen mounted, nothing fetched yet.  The buttons of a card call
\* TaskCard's own handlers (handleStatusChange, handleDelete), as the JSX of the
\* source has it; HomeScreen's handleToggleStatus and handleDeleteTask have no
\* caller in the source and are exercised as the handlers the same buttons
\* would call (wired = "HomeScreen").
InitScreens ==
  /\ tasks = <<>>
  /\ categories = <<>>
  /\ selectedCategory = Null
  /\ isLoading = TRUE
  /\ isUpdating = FALSE
  /\ dialog = NoDialog
  /\ remote \in RemoteTasks
  /\ wired \in {"TaskCard", "HomeScreen"}
  /\ inflight = EmptyBag
  /\ catInflight = <<>>
  /\ formIsLoading = FALSE
  /\ saveInflight = <<>>
  /\ onForm = TRUE
  /\ last = Step(NoAlert, {})

Init ==
  /\ InitScreens
  /\ title = <<>>
  /\ amount = <<>>
  /\ isEditing = FALSE

\* the calls a step makes to the notification service:
\* scheduleTaskReminder(task) with the task's id and status,
\* cancelTaskNotification(id)
Scheduled(id, status) == [id |-> id, call |-> "schedule", status |-> status]
Cancelled(id) == [id |-> id, call |-> "cancel", status |-> FALSE]

\* requests in flight
InFlight == BagToSet(inflight)
Issue(r) == inflight (+) SetToBag({r})
\* inflight', for the continuation of request r (the promise has settled)
Settled(r) == inflight' = inflight (-) SetToBag({r})
Resolved(r, handler) ==
  /\ r \in InFlight
  /\ r.handler = handler
  /\ r.stage = "ok"
\* the promise rejects: the remote resource did not carry the request out
Rejected(r, handler) ==
  /\ r \in InFlight
  /\ r.handler = handler
  /\ r.stage = "sent"

\* ------------------------------------------------------------ remote side
\* the remote resource handles request r and answers with success: getTasks
\* with its collection, updateTaskStatus and deleteTask after changing the task.
\* A request it cannot serve (unknown id) or that never reaches it is rejected.
RemoteHandle(r) ==
  /\ r \in InFlight
  /\ r.stage = "sent"
  /\ r.api \in {"updateTaskStatus", "deleteTask"} => Has(remote, r.id)
  /\ CASE r.api = "getTasks" ->
            /\ inflight' = (inflight (-) SetToBag({r}))
                             (+) SetToBag({[r EXCEPT !.stage = "ok", !.payload = remote]})
            /\ remote' = remote
       [] r.api = "updateTaskStatus" ->
            /\ inflight' = (inflight (-) SetToBag({r}))
                             (+) SetToBag({[r EXCEPT !.stage = "ok"]})
            /\ remote' = Map(remote, LAMBDA t :
                               IF t.id = r.id THEN [t EXCEPT !.status = r.newStatus]
                               ELSE t)
       [] r.api = "deleteTask" ->
            /\ inflight' = (inflight (-) SetToBag({r}))
                             (+) SetToBag({[r EXCEPT !.stage = "ok"]})
            /\ remote' = Filter(remote, LAMBDA t : t.id # r.id)
  /\ last' = Step(NoAlert, {})
  /\ UNCHANGED <<tasks, categories, selectedCategory, isLoading, isUpdating,
                 dialog, wired, catInflight, formVars>>

\* ------------------------------------------------------------------ loading
\* fetchTasks, called by the navigation 'focus' listener, up to
\* `await api.getTasks()`
fetchTasks ==
  /\ dialog = NoDialog
  /\ BagCardinality(inflight) < MaxInflight
  /\ isLoading' = TRUE
  /\ inflight' = Issue(Request("getTasks", "fetchTasks", NoId, FALSE))
  /\ last' = Step(NoAlert, {})
  /\ UNCHANGED <<tasks, categories, selectedCategory, isUpdating, dialog, wired,
                 remote, catInflight, formVars>>

\* fetchTasks, after the await resolved: setTasks(response), a reminder for
\* every incomplete task of the response; finally setIsLoading(false)
fetchTasksResolved(r) ==
  /\ Resolved(r, "fetchTasks")
  /\ LET response == r.payload
         incomplete == {response[k].id : k \in {k \in DOMAIN response : ~response[k].status}}
     IN /\ tasks' = response
        /\ last' = Step(NoAlert,
                        {Scheduled(id, FALSE) : id \in incomplete})
  /\ isLoading' = FALSE
  /\ Settled(r)
  /\ UNCHANGED <<categories, selectedCategory, isUpdating, dialog, wired, remote,
                 catInflight, formVars>>

\* variant: the catch block empties the list
fetchTasksRejected_clears(r) ==
  /\ Rejected(r, "fetchTasks")
  /\ tasks' = <<>>
  /\ isLoading' = FALSE
  /\ last' = Step(Alert("Error", "Failed to fetch tasks"), {})
  /\ Settled(r)
  /\ UNCHANGED <<categories, selectedCategory, isUpdating, dialog, wired, remote,
                 catInflight, formVars>>

\* fetchTasks, catch: Alert.alert('Error', ...); finally setIsLoading(false)
fetchTasksRejected(r) ==
  /\ Rejected(r, "fetchTasks")
  /\ isLoading' = FALSE
  /\ last' = Step(Alert("Error", "Failed to fetch tasks"), {})
  /\ Settled(r)
  /\ UNCHANGED <<tasks, categories, selectedCategory, isUpdating, dialog, wired, remote,
                 catInflight, formVars>>

\* fetchCategories, called by the same listener, up to `await api.getCategories()`
fetchCategories ==
  /\ dialog = NoDialog
  /\ Len(catInflight) < MaxCatInflight
  /\ catInflight' = Append(catInflight, "sent")
  /\ last' = Step(NoAlert, {})
  /\ UNCHANGED <<tasks, categories, selectedCategory, isLoading, isUpdating, dialog, wired,
                 remote, inflight, formVars>>

\* fetchCategories, after the await resolved: the "All Tasks" entry (id null)
\* followed by the response
fetchCategoriesResolved(j) ==
  /\ j \in DOMAIN catInflight
  /\ categories' = <<[id |-> Null]>> \o Map(RemoteCategories, LAMBDA c : [id |-> c])
  /\ catInflight' = RemoveAt(catInflight, j)
  /\ last' = Step(NoAlert, {})
  /\ UNCHANGED <<tasks, selectedCategory, isLoading, isUpdating, dialog, wired, remote,
                 inflight, formVars>>

\* fetchCategories, catch
fetchCategoriesRejected(j) ==
  /\ j \in DOMAIN catInflight
  /\ catInflight' = RemoveAt(catInflight, j)
  /\ last' = Step(Alert("Error", "Failed to fetch categories"), {})
  /\ UNCHANGED <<tasks, categories, selectedCategory, isLoading, isUpdating, dialog, wired,
                 remote, inflight, formVars>>

\* renderCategoryItem onPress: setSelectedCategory(item.id)
selectCategory(k) ==
  /\ CardsShown
  /\ k \in DOMAIN categories
  /\ selectedCategory' = categories[k].id
  /\ last' = Step(NoAlert, {})
  /\ UNCHANGED <<tasks, categories, isLoading, isUpdating, dialog, wired, remote, inflight,
                 catInflight, formVars>>

\* ------------------------------------------------- TaskCard.handleStatusChange
\* variant: the updater inserts the task when prevTasks does not hold it
statusChangeUpdater_upsert(prevTasks, task) ==
  IF Has(prevTasks, task.id)
  THEN Map(prevTasks, LAMBDA t :
             IF t.id = task.id THEN [t EXCEPT !.status = ~task.status] ELSE t)
  ELSE Append(prevTasks, [id |-> task.id, status |-> ~task.status,
                          category_id |-> Null])

\* setTasks updater of handleStatusChange: `task` is the card's prop, captured
\* when the button was pressed
statusChangeUpdater(prevTasks, task) ==
  Map(prevTasks, LAMBDA t :
        IF t.id = task.id THEN [t EXCEPT !.status = ~task.status] ELSE t)

\* variant: setTasks before the await (optimistic patch)
TaskCard_handleStatusChange_optimistic(task) ==
  /\ wired = "TaskCard"
  /\ CardsShown
  /\ task \in Rendered
  /\ BagCardinality(inflight) < MaxInflight
  /\ isUpdating' = TRUE
  /\ tasks' = statusChangeUpdater(tasks, task)
  /\ inflight' = Issue(Request("updateTaskStatus", "TaskCard.handleStatusChange",
                                task.id, task.status))
  /\ last' = Step(NoAlert, {})
  /\ UNCHANGED <<categories, selectedCategory, isLoading, dialog, wired, remote,
                 catInflight, formVars>>

\* variant: scheduleTaskReminder before the await
TaskCard_handleStatusChange_notifying(task) ==
  /\ wired = "TaskCard"
  /\ CardsShown
  /\ task \in Rendered
  /\ BagCardinality(inflight) < MaxInflight
  /\ isUpdating' = TRUE
  /\ inflight' = Issue(Request("updateTaskStatus", "TaskCard.handleStatusChange",
                                task.id, task.status))
  /\ last' = Step(NoAlert,
                  {Scheduled(task.id, ~task.status)})
  /\ UNCHANGED <<tasks, categories, selectedCategory, isLoading, dialog, wired, remote,
                 catInflight, formVars>>

\* up to `await api.updateTaskStatus(task.id, !task.status)`
TaskCard_handleStatusChange(task) ==
  /\ wired = "TaskCard"
  /\ CardsShown
  /\ task \in Rendered
  /\ BagCardinality(inflight) < MaxInflight
  /\ isUpdating' = TRUE
  /\ inflight' = Issue(Request("updateTaskStatus", "TaskCard.handleStatusChange",
                                task.id, task.status))
  /\ last' = Step(NoAlert, {})
  /\ UNCHANGED <<tasks, categories, selectedCategory, isLoading, dialog, wired, remote,
                 catInflight, formVars>>

\* after the await resolved: setTasks(updater), scheduleTaskReminder({...task,
\* status: !task.status}); finally setIsUpdating(false).  The promise of
\* scheduleTaskReminder is not awaited: its rejection reaches no catch block.
TaskCard_statusChangeResolved(r) ==
  /\ Resolved(r, "TaskCard.handleStatusChange")
  /\ LET task == r IN
       /\ tasks' = statusChangeUpdater(tasks, task)
       /\ \E scheduleOk \in ReminderOutcomes :
            last' = [Step(NoAlert, {Scheduled(task.id, ~task.status)})
                     EXCEPT !.reminderFailed = ~scheduleOk]
  /\ isUpdating' = FALSE
  /\ Settled(r)
  /\ UNCHANGED <<categories, selectedCategory, isLoading, dialog, wired, remote,
                 catInflight, formVars>>

\* variant: the catch block leaves the patch in the list
TaskCard_statusChangeRejected_patches(r) ==
  /\ Rejected(r, "TaskCard.handleStatusChange")
  /\ tasks' = statusChangeUpdater(tasks, r)
  /\ isUpdating' = FALSE
  /\ last' = Step(Alert("Error", "Failed to update task status"), {})
  /\ Settled(r)
  /\ UNCHANGED <<categories, selectedCategory, isLoading, dialog, wired, remote,
                 catInflight, formVars>>

\* catch: Alert.alert('Error', ...); finally setIsUpdating(false)
TaskCard_statusChangeRejected(r) ==
  /\ Rejected(r, "TaskCard.handleStatusChange")
  /\ isUpdating' = FALSE
  /\ last' = Step(Alert("Error", "Failed to update task status"), {})
  /\ Settled(r)
  /\ UNCHANGED <<tasks, categories, selectedCategory, isLoading, dialog, wired, remote,
                 catInflight, formVars>>

\* ---------------------------------------------------------- handleToggleStatus
\* setTasks updater of handleToggleStatus
toggleStatusUpdater(prevTasks, taskId, newStatus) ==
  Map(prevTasks, LAMBDA task :
        IF task.id = taskId THEN [task EXCEPT !.status = newStatus] ELSE task)

\* handleToggleStatus(taskId, currentStatus) up to the await, called with the
\* id and the status of a task on screen
handleToggleStatus(taskId, currentStatus) ==
  /\ wired = "HomeScreen"
  /\ CardsShown
  /\ \E task \in Rendered : task.id = taskId /\ task.status = currentStatus
  /\ BagCardinality(inflight) < MaxInflight
  /\ isUpdating' = TRUE
  /\ inflight' = Issue(Request("updateTaskStatus", "handleToggleStatus",
                                taskId, currentStatus))
  /\ last' = Step(NoAlert, {})
  /\ UNCHANGED <<tasks, categories, selectedCategory, isLoading, dialog, wired, remote,
                 catInflight, formVars>>

\* after the await resolved: setTasks(updater), the updater calling
\* scheduleTaskReminder for the task it finds (not awaited); Alert 'Success';
\* finally
toggleStatusResolved(r) ==
  /\ Resolved(r, "handleToggleStatus")
  /\ LET taskId == r.id
         newStatus == r.newStatus
         found == IF Has(tasks, taskId) THEN {taskId} ELSE {}
     IN /\ tasks' = toggleStatusUpdater(tasks, taskId, newStatus)
        /\ \E scheduleOk \in ReminderOutcomes :
             last' = [Step(Alert("Success", IF newStatus THEN "Task marked as completed"
                                            ELSE "Task marked as incomplete"),
                           {Scheduled(id, newStatus) : id \in found})
                      EXCEPT !.reminderFailed = (found # {} /\ ~scheduleOk)]
  /\ isUpdating' = FALSE
  /\ Settled(r)
  /\ UNCHANGED <<categories, selectedCategory, isLoading, dialog, wired, remote,
                 catInflight, formVars>>

\* catch: Alert.alert('Error', ...), console.error; finally setIsUpdating(false)
toggleStatusRejected(r) ==
  /\ Rejected(r, "handleToggleStatus")
  /\ isUpdating' = FALSE
  /\ last' = Step(Alert("Error", "Failed to update task status"), {})
  /\ Settled(r)
  /\ UNCHANGED <<tasks, categories, selectedCategory, isLoading, dialog, wired, remote,
                 catInflight, formVars>>

\* ------------------------------------------------------------ delete handlers
\* setTasks updater of handleDeleteTask's onPress
deleteTaskUpdater(prevTasks, taskId) ==
  Filter(prevTasks, LAMBDA task : task.id # taskId)

\* setTasks updater of TaskCard.handleDelete's onPress: the arrow function's
\* parameter is named `task` too and hides the card's prop, so both sides of
\* `!==` read the element of prevTasks
cardDeleteUpdater(prevTasks, task) ==
  Filter(prevTasks, LAMBDA elem : elem.id # elem.id)

\* handleDeleteTask(taskId) / TaskCard.handleDelete: Alert.alert with the
\* buttons Cancel and Delete
handleDeleteTask(taskId) ==
  /\ wired = "HomeScreen"
  /\ CardsShown
  /\ \E task \in Rendered : task.id = taskId
  /\ dialog' = [handler |-> "handleDeleteTask", id |-> taskId]
  /\ last' = Step(DeleteConfirmation, {})
  /\ UNCHANGED <<wired, tasks, categories, selectedCategory, isLoading, isUpdating, remote,
                 inflight, catInflight, formVars>>

TaskCard_handleDelete(task) ==
  /\ wired = "TaskCard"
  /\ CardsShown
  /\ task \in Rendered
  /\ dialog' = [handler |-> "TaskCard.handleDelete", id |-> task.id]
  /\ last' = Step(DeleteConfirmation, {})
  /\ UNCHANGED <<wired, tasks, categories, selectedCategory, isLoading, isUpdating, remote,
                 inflight, catInflight, formVars>>

\* the Cancel button, or dismissing the cancelable alert
cancelDelete ==
  /\ dialog # NoDialog
  /\ dialog' = NoDialog
  /\ last' = Step(NoAlert, {})
  /\ UNCHANGED <<wired, tasks, categories, selectedCategory, isLoading, isUpdating, remote,
                 inflight, catInflight, formVars>>

\* the Delete button, up to `await api.deleteTask(...)`
deleteOnPress ==
  /\ dialog # NoDialog
  /\ BagCardinality(inflight) < MaxInflight
  /\ isUpdating' = TRUE
  /\ inflight' = Issue(Request("deleteTask", dialog.handler, dialog.id, FALSE))
  /\ dialog' = NoDialog
  /\ last' = Step(NoAlert, {})
  /\ UNCHANGED <<wired, tasks, categories, selectedCategory, isLoading, remote,
                 catInflight, formVars>>

\* what follows setTasks in both onPress bodies: `await
\* cancelTaskNotification(id)` inside the try, so its rejection reaches the
\* catch and its Alert; finally setIsUpdating(false).  The state the awaited
\* cancel call leaves between is read by nothing, the two halves are one step.
AfterDelete(r, cancelOk) ==
  /\ last' = [Step(IF cancelOk THEN NoAlert
                   ELSE Alert("Error", "Failed to delete task"),
                   {Cancelled(r.id)})
              EXCEPT !.reminderFailed = ~cancelOk]
  /\ isUpdating' = FALSE
  /\ Settled(r)
  /\ UNCHANGED <<categories, selectedCategory, isLoading, dialog, wired, remote,
                 catInflight, formVars>>

deleteTaskResolved(r, cancelOk) ==
  /\ Resolved(r, "handleDeleteTask")
  /\ tasks' = deleteTaskUpdater(tasks, r.id)
  /\ AfterDelete(r, cancelOk)

TaskCard_deleteResolved(r, cancelOk) ==
  /\ Resolved(r, "TaskCard.handleDelete")
  /\ tasks' = cardDeleteUpdater(tasks, r)
  /\ AfterDelete(r, cancelOk)

\* variant: the catch block takes the task out of the list
deleteRejected_removes(r, handler) ==
  /\ Rejected(r, handler)
  /\ tasks' = deleteTaskUpdater(tasks, r.id)
  /\ isUpdating' = FALSE
  /\ last' = Step(Alert("Error", "Failed to delete task"), {})
  /\ Settled(r)
  /\ UNCHANGED <<categories, selectedCategory, isLoading, dialog, wired, remote,
                 catInflight, formVars>>

\* catch of both onPress bodies when api.deleteTask rejected
deleteRejected(r, handler) ==
  /\ Rejected(r, handler)
  /\ isUpdating' = FALSE
  /\ last' = Step(Alert("Error", "Failed to delete task"), {})
  /\ Settled(r)
  /\ UNCHANGED <<tasks, categories, selectedCategory, isLoading, dialog, wired, remote,
                 catInflight, formVars>>

deleteTaskRejected(r) == deleteRejected(r, "handleDeleteTask")
TaskCard_deleteRejected(r) == deleteRejected(r, "TaskCard.handleDelete")

Next ==
  \/ fetchTasks
  \/ \E r \in InFlight : RemoteHandle(r)
  \/ \E r \in InFlight : fetchTasksResolved(r)
  \/ \E r \in InFlight : fetchTasksRejected(r)
  \/ \E task \in Rendered : TaskCard_handleStatusChange(task)
  \/ \E r \in InFlight : TaskCard_statusChangeResolved(r)
  \/ \E r \in InFlight : TaskCard_statusChangeRejected(r)
  \/ \E taskId \in TaskIds, currentStatus \in BOOLEAN :
       handleToggleStatus(taskId, currentStatus)
  \/ \E r \in InFlight : toggleStatusResolved(r)
  \/ \E r \in InFlight : toggleStatusRejected(r)
  \/ \E taskId \in TaskIds : handleDeleteTask(taskId)
  \/ \E task \in Rendered : TaskCard_handleDelete(task)
  \/ cancelDelete
  \/ deleteOnPress
  \/ \E r \in InFlight, cancelOk \in ReminderOutcomes : deleteTaskResolved(r, cancelOk)
  \/ \E r \in InFlight, cancelOk \in ReminderOutcomes :
       TaskCard_deleteResolved(r, cancelOk)
  \/ \E r \in InFlight : deleteTaskRejected(r)
  \/ \E r \in InFlight : TaskCard_deleteRejected(r)

Spec == Init /\ [][Next]_vars

\* the behaviours in which every call to the remote resource succeeds
NextSucceed ==
  \/ fetchTasks
  \/ \E r \in InFlight : RemoteHandle(r)
  \/ \E r \in InFlight : fetchTasksResolved(r)
  \/ \E task \in Rendered : TaskCard_handleStatusChange(task)
  \/ \E r \in InFlight : TaskCard_statusChangeResolved(r)
  \/ \E taskId \in TaskIds, currentStatus \in BOOLEAN :
       handleToggleStatus(taskId, currentStatus)
  \/ \E r \in InFlight : toggleStatusResolved(r)
  \/ \E taskId \in TaskIds : handleDeleteTask(taskId)
  \/ \E task \in Rendered : TaskCard_handleDelete(task)
  \/ cancelDelete
  \/ deleteOnPress
  \/ \E r \in InFlight, cancelOk \in ReminderOutcomes : deleteTaskResolved(r, cancelOk)
  \/ \E r \in InFlight, cancelOk \in ReminderOutcomes :
       TaskCard_deleteResolved(r, cancelOk)

SpecSucceed == Init /\ [][NextSucceed]_vars

\* ------------------------------------------------------- the list as shown
\* The screen over a remote collection of three tasks, with the category bar:
\* the focus listener's two loads, the selection of a category, and the
\* buttons of the cards (status, delete), every remote call free to fail.
\* The task requests are issued one at a time here: what the sections show is
\* read from the collection and the selection alone.
ViewTasks ==
  {<<[id |-> 1, status |-> a, category_id |-> 1],
     [id |-> 2, status |-> b, category_id |-> 2],
     [id |-> 3, status |-> c, category_id |-> 1]>> :
     a \in BOOLEAN, b \in BOOLEAN, c \in BOOLEAN}

InitView ==
  /\ tasks = <<>>
  /\ categories = <<>>
  /\ selectedCategory = Null
  /\ isLoading = TRUE
  /\ isUpdating = FALSE
  /\ dialog = NoDialog
  /\ remote \in ViewTasks
  /\ wired = "TaskCard"
  /\ inflight = EmptyBag
  /\ catInflight = <<>>
  /\ formIsLoading = FALSE
  /\ saveInflight = <<>>
  /\ onForm = TRUE
  /\ last = Step(NoAlert, {})
  /\ title = <<>>
  /\ amount = <<>>
  /\ isEditing = FALSE

NextView ==
  \/ inflight = EmptyBag /\ fetchTasks
  \/ \E r \in InFlight : RemoteHandle(r)
  \/ \E r \in InFlight : fetchTasksResolved(r)
  \/ \E r \in InFlight : fetchTasksRejected(r)
  \/ fetchCategories
  \/ \E j \in DOMAIN catInflight : fetchCategoriesResolved(j)
  \/ \E j \in DOMAIN catInflight : fetchCategoriesRejected(j)
  \/ \E k \in DOMAIN categories : selectCategory(k)
  \/ inflight = EmptyBag /\ \E task \in Rendered : TaskCard_handleStatusChange(task)
  \/ \E r \in InFlight : TaskCard_statusChangeResolved(r)
  \/ \E r \in InFlight : TaskCard_statusChangeRejected(r)
  \/ \E task \in Rendered : TaskCard_handleDelete(task)
  \/ cancelDelete
  \/ inflight = EmptyBag /\ deleteOnPress
  \/ \E r \in InFlight, cancelOk \in ReminderOutcomes :
       TaskCard_deleteResolved(r, cancelOk)
  \/ \E r \in InFlight : TaskCard_deleteRejected(r)

SpecView == InitView /\ [][NextView]_vars

\* =========================================================== NewExpenseScreen
\* Text is a sequence of one-character strings.
WhiteSpace == {" "}
Digit == {"0", "1", "2", "3", "4", "5", "6", "7", "8", "9"}
InfinityText == <<"I", "n", "f", "i", "n", "i", "t", "y">>

\* String.prototype.trimStart / trim
RECURSIVE trimStart(_)
trimStart(str) ==
  IF str # <<>> /\ Head(str) \in WhiteSpace THEN trimStart(Tail(str)) ELSE str
RECURSIVE trimEnd(_)
trimEnd(str) ==
  IF str # <<>> /\ str[Len(str)] \in WhiteSpace
  THEN trimEnd(SubSeq(str, 1, Len(str) - 1)) ELSE str
trim(str) == trimEnd(trimStart(str))

\* numbers: NaN, +-Infinity, or sign * mant / 10^scale
NaN == [kind |-> "NaN", sign |-> 1, mant |-> 0, scale |-> 0]
Infinite(sign) == [kind |-> "Infinity", sign |-> sign, mant |-> 0, scale |-> 0]
Finite(sign, mant, scale) == [kind |-> "finite", sign |-> sign, mant |-> mant, scale |-> scale]

DigitValue(c) == CHOOSE v \in 0..9 : <<"0", "1", "2", "3", "4", "5", "6", "7", "8", "9">>[v + 1] = c
RECURSIVE DigitsValue(_)
DigitsValue(ds) ==
  IF ds = <<>> THEN 0
  ELSE 10 * DigitsValue(SubSeq(ds, 1, Len(ds) - 1)) + DigitValue(ds[Len(ds)])

\* StrUnsignedDecimalLiteral of ECMAScript: Infinity, or decimal digits with at
\* most one point and at least one digit.  (ExponentPart and the 0x/0o/0b
\* literals are not modelled; no text entered below uses them.)
IsUnsignedDecimal(u) ==
  \/ u = InfinityText
  \/ /\ \A k \in DOMAIN u : u[k] \in Digit \cup {"."}
     /\ Cardinality({k \in DOMAIN u : u[k] = "."}) <= 1
     /\ \E k \in DOMAIN u : u[k] \in Digit
Unsigned(str) == IF str # <<>> /\ Head(str) \in {"+", "-"} THEN Tail(str) ELSE str
SignOf(str) == IF str # <<>> /\ Head(str) = "-" THEN -1 ELSE 1
IsStrDecimalLiteral(str) == IsUnsignedDecimal(Unsigned(str))
DecimalValue(str) ==
  LET u == Unsigned(str)
      ds == SelectSeq(u, LAMBDA c : c \in Digit)
      points == {k \in DOMAIN u : u[k] = "."}
      scale == IF points = {} THEN 0 ELSE Len(u) - (CHOOSE k \in points : TRUE)
  IN IF u = InfinityText THEN Infinite(SignOf(str))
     ELSE Finite(SignOf(str), DigitsValue(ds), scale)

\* Number(str), the conversion isNaN applies to its argument: the whole trimmed
\* text must be a numeric literal, the empty text is 0
ToNumber(str) ==
  LET t == trim(str) IN
    IF t = <<>> THEN Finite(1, 0, 0)
    ELSE IF IsStrDecimalLiteral(t) THEN DecimalValue(t)
    ELSE NaN
isNaN(str) == ToNumber(str).kind = "NaN"

\* parseFloat(str): the longest prefix of the left-trimmed text that is a
\* decimal literal, NaN when there is none
parseFloat(str) ==
  LET t == trimStart(str)
      lens == {n \in 1..Len(t) : IsStrDecimalLiteral(SubSeq(t, 1, n))}
  IN IF lens = {} THEN NaN
     ELSE DecimalValue(SubSeq(t, 1, CHOOSE n \in lens : \A m \in lens : m <= n))

\* texts typed into the two TextInputs
TitleInputs == {<<>>, <<" ">>, <<"T", "e", "a">>}
AmountInputs ==
  {<<>>, <<" ">>, <<"1", "0">>, <<"0">>, <<"-", "5">>, <<"1", ".", "5">>,
   <<"1", "2", "a">>, <<"a", "b", "c">>, <<" ", "7", " ">>, <<".">>,
   <<"1", ".", "2", ".", "3">>, InfinityText, <<"-">> \o InfinityText}

\* the screen opened from the expense list: a new expense with empty fields, or
\* an expense to edit with its title and amount.toString()
InitForm ==
  /\ InitScreens
  /\ isEditing \in BOOLEAN
  /\ title = IF isEditing THEN <<"T", "e", "a">> ELSE <<>>
  /\ amount = IF isEditing THEN <<"1", "0">> ELSE <<>>

\* onChangeText={setTitle} / onChangeText={setAmount}
setTitle(text) ==
  /\ onForm
  /\ title' = text
  /\ last' = Step(NoAlert, {})
  /\ UNCHANGED <<homeVars, amount, isEditing, formIsLoading, saveInflight, onForm>>

setAmount(text) ==
  /\ onForm
  /\ amount' = text
  /\ last' = Step(NoAlert, {})
  /\ UNCHANGED <<homeVars, title, isEditing, formIsLoading, saveInflight, onForm>>

\* variant: the button is not disabled while isLoading
handleSave_enabled ==
  /\ onForm
  /\ IF trim(title) = <<>>
     THEN /\ last' = Step(Alert("Error", "Please enter an expense title"), {})
          /\ UNCHANGED <<formIsLoading, saveInflight>>
     ELSE IF trim(amount) = <<>> \/ isNaN(amount)
     THEN /\ last' = Step(Alert("Error", "Please enter a valid amount"), {})
          /\ UNCHANGED <<formIsLoading, saveInflight>>
     ELSE /\ formIsLoading' = TRUE
          /\ saveInflight' =
               Append(saveInflight,
                      [api |-> IF isEditing THEN "updateExpense" ELSE "createExpense",
                       title |-> title, amount |-> parseFloat(amount)])
          /\ last' = [Step(NoAlert, {}) EXCEPT !.called = TRUE]
  /\ UNCHANGED <<homeVars, title, amount, isEditing, onForm>>

\* handleSave up to its first return or await; the button is disabled while
\* isLoading
handleSave ==
  /\ onForm
  /\ ~formIsLoading
  /\ IF trim(title) = <<>>
     THEN /\ last' = Step(Alert("Error", "Please enter an expense title"), {})
          /\ UNCHANGED <<formIsLoading, saveInflight>>
     ELSE IF trim(amount) = <<>> \/ isNaN(amount)
     THEN /\ last' = Step(Alert("Error", "Please enter a valid amount"), {})
          /\ UNCHANGED <<formIsLoading, saveInflight>>
     ELSE /\ formIsLoading' = TRUE
          /\ saveInflight' =
               Append(saveInflight,
                      [api |-> IF isEditing THEN "updateExpense" ELSE "createExpense",
                       title |-> title, amount |-> parseFloat(amount)])
          /\ last' = [Step(NoAlert, {}) EXCEPT !.called = TRUE]
  /\ UNCHANGED <<homeVars, title, amount, isEditing, onForm>>

\* after the await resolved: Alert 'Success', navigation.goBack(); finally
\* setIsLoading(false)
saveResolved(j) ==
  /\ j \in DOMAIN saveInflight
  /\ saveInflight' = RemoveAt(saveInflight, j)
  /\ onForm' = FALSE
  /\ formIsLoading' = FALSE
  /\ last' = Step(Alert("Success", IF isEditing THEN "Expense updated successfully"
                                    ELSE "Expense added successfully"), {})
  /\ UNCHANGED <<homeVars, title, amount, isEditing>>

\* catch: Alert.alert('Error', ...); finally setIsLoading(false)
saveRejected(j) ==
  /\ j \in DOMAIN saveInflight
  /\ saveInflight' = RemoveAt(saveInflight, j)
  /\ formIsLoading' = FALSE
  /\ last' = Step(Alert("Error", "Failed to save expense"), {})
  /\ UNCHANGED <<homeVars, title, amount, isEditing, onForm>>

NextForm ==
  \/ \E text \in TitleInputs : setTitle(text)
  \/ \E text \in AmountInputs : setAmount(text)
  \/ handleSave
  \/ \E j \in DOMAIN saveInflight : saveResolved(j)
  \/ \E j \in DOMAIN saveInflight : saveRejected(j)

SpecForm == InitForm /\ [][NextForm]_vars

\* ==================================================================== claims
Updates == {r \in InFlight : r.api = "updateTaskStatus"}
Deletes == {r \in InFlight : r.api = "deleteTask"}
Loads == {r \in InFlight : r.api = "getTasks"}
\* this step issued request r (a handler ran up to its await)
Issued(r) == r.stage = "sent" /\ inflight' = Issue(r)
\* this step is the continuation of request r: after the await resolved (the
\* remote resource carried r out), in the catch block (it did not)
Succeeded(r) == r.stage = "ok" /\ Settled(r)
Failed(r) == r.stage = "sent" /\ Settled(r)
\* the requests this step may have issued
IssuedUpdates == {r \in BagToSet(inflight') : r.api = "updateTaskStatus"}
IssuedDeletes == {r \in BagToSet(inflight') : r.api = "deleteTask"}
IssuedLoads == {r \in BagToSet(inflight') : r.api = "getTasks"}
\* s without the entity id: the others, unchanged, in their order
Without(s, id) == SelectSeq(s, LAMBDA t : t.id # id)
\* s with the status of the entity id set
Patched(s, id, status) ==
  [k \in DOMAIN s |-> IF s[k].id = id THEN [s[k] EXCEPT !.status = status] ELSE s[k]]
\* update/delete requests for the id that have not settled
Outstanding(id) ==
  LET rs == {r \in InFlight : r.id = id /\ r.api \in {"updateTaskStatus", "deleteTask"}}
  IN BagCardinality([r \in rs |-> inflight[r]])
ErrorShown == last'.alert.title = "Error"

C2_RemoveOnlyThatEntity ==
  [][\A r \in Deletes : Succeeded(r) => tasks' = Without(tasks, r.id)]_vars

\* C3 as stated: for every id at most one update/delete request is outstanding.
C3_OneRequestPerId ==
  \A id \in TaskIds : Outstanding(id) <= 1

\* C4 as stated: when every remote call succeeds, once all calls have settled
\* the local collection equals the collection of the remote resource.
C4_Converged ==
  (inflight = EmptyBag /\ ~isLoading) => tasks = remote

\* C5: when a successful update response is applied for an id that the local
\* collection does not hold, the collection is left as it is (the id stays
\* absent) and no error is shown.
C5_NoResurrection ==
  [][\A r \in Updates : (Succeeded(r) /\ ~Has(tasks, r.id)) =>
       /\ ~Has(tasks', r.id)
       /\ tasks' = tasks
       /\ ~ErrorShown]_vars

\* C5 witness: an update response has just been applied by a card (the step
\* made the reminder call for the toggled status) for an id that is gone from
\* a collection that still holds another task
C5_Witness ==
  /\ tasks # <<>>
  /\ \E c \in last.notified : c.call = "schedule" /\ ~Has(tasks, c.id)

\* C6: a toggle whose remote update fails never shows its patch: neither the
\* step issuing the call nor the step handling the failure changes the local
\* collection, so the entity keeps the value it had, and the failure shows an
\* error.
C6_FailedUpdateLeavesValue ==
  [][/\ \A r \in IssuedUpdates : Issued(r) => tasks' = tasks
     /\ \A r \in Updates : Failed(r) => tasks' = tasks /\ ErrorShown]_vars

\* C6 witness: an update has just failed, the error is shown and the local
\* collection holds the tasks with the values the remote resource holds
C6_Witness ==
  /\ last.alert = Alert("Error", "Failed to update task status")
  /\ tasks # <<>>
  /\ tasks = remote

\* C7: a delete whose remote call fails never removes anything: neither the
\* step issuing the call nor the step handling the failure changes the local
\* collection (membership, fields and order), and the failure shows an error.
C7_FailedDeleteLeavesCollection ==
  [][/\ \A r \in IssuedDeletes : Issued(r) => tasks' = tasks
     /\ \A r \in Deletes : Failed(r) => tasks' = tasks /\ ErrorShown]_vars

\* C7 witness: a delete has just failed (the catch ran without the reminder
\* having been cancelled), the error is shown, and the collection holds every
\* task
C7_Witness ==
  /\ last = Step(Alert("Error", "Failed to delete task"), {})
  /\ {tasks[k].id : k \in DOMAIN tasks} = TaskIds

\* a number that is finite and not negative
FiniteNonNegative(v) == v.kind = "finite" /\ (v.sign = 1 \/ v.mant = 0)

\* C8 as stated: whenever the title is empty or the amount does not parse as a
\* finite non-negative number, handleSave calls neither api.createExpense nor
\* api.updateExpense: a call is made only for a draft with a title and a
\* finite non-negative amount.
C8_InvalidDraftRejected ==
  last.called => (title # <<>> /\ FiniteNonNegative(parseFloat(amount)))

\* C9: when the remote list call fails, the local collection is the one before
\* (the load never touches it before it resolves), an error is shown and the
\* loading indicator is cleared.
C9_FailedLoadKeepsCollection ==
  [][/\ \A r \in IssuedLoads : Issued(r) => tasks' = tasks
     /\ \A r \in Loads : Failed(r) => tasks' = tasks /\ ErrorShown /\ ~isLoading']_vars

\* C9 witness: a load has just failed over a collection that holds tasks
C9_Witness ==
  /\ last.alert = Alert("Error", "Failed to fetch tasks")
  /\ tasks # <<>>
  /\ ~isLoading

\* C10 as stated: the toggle notifies the reminder service of the new state in
\* the step that issues the remote update, before the update settles.
C10_ReminderBeforeRemote ==
  [][\A r \in IssuedUpdates :
       Issued(r) => Scheduled(r.id, r.newStatus) \in last'.notified]_vars

\* C10 amended: the toggle calls the reminder service only in the step that
\* runs after the remote update resolved (TaskCard: always; handleToggleStatus:
\* when the collection holds the task); the step that issues the remote update
\* and the step that handles its failure make no reminder call.
C10_ReminderAfterRemote ==
  [][/\ \A r \in IssuedUpdates : Issued(r) => last'.notified = {}
     /\ \A r \in Updates : Failed(r) => last'.notified = {}
     /\ \A r \in Updates : Succeeded(r) =>
          last'.notified =
            IF r.handler = "TaskCard.handleStatusChange" \/ Has(tasks, r.id)
            THEN {Scheduled(r.id, r.newStatus)} ELSE {}]_vars

\* C10 witness: the remote update of a toggle to completed resolved and the
\* reminder call for the new status was made in that step
C10_Witness ==
  \E c \in last.notified : c.call = "schedule" /\ c.status

\* C11 as stated: a step that applies a remove or a toggle whose remote call
\* succeeded and whose reminder call failed shows no error alert and leaves
\* the collection with the mutation applied (the removed entity is gone, the
\* toggled entity has the new status).
C11_ReminderFailureSilent ==
  [][last'.reminderFailed =>
       /\ ~ErrorShown
       /\ \A r \in Deletes : Succeeded(r) => ~Has(tasks', r.id)
       /\ \A r \in Updates : (Succeeded(r) /\ Has(tasks, r.id)) =>
            Find(tasks', r.id).status = r.newStatus]_vars

\* the position of the entity id in the collection
Pos(id) == CHOOSE k \in DOMAIN tasks : tasks[k].id = id
\* the sequence s keeps the relative order of the collection
InCollectionOrder(s) ==
  \A i \in DOMAIN s, j \in DOMAIN s : i < j => Pos(s[i].id) < Pos(s[j].id)
IdsOf(s) == [k \in DOMAIN s |-> s[k].id]

\* C12: in every state and for every selected category the 'In Progress' and
\* 'Completed' sections are a partition of the filtered list: no entity is in
\* both, their lengths add up to the length of the filtered list, an entity of
\* the filtered list is in 'Completed' exactly when its status flag is set and
\* in 'In Progress' exactly when it is not, and each section keeps the
\* relative order of the collection.
C12_SectionsPartition ==
  /\ Ids(InProgress) \cap Ids(Completed) = {}
  /\ Len(InProgress) + Len(Completed) = Len(filteredTasks)
  /\ \A k \in DOMAIN filteredTasks :
       LET t == filteredTasks[k] IN
         /\ t.status <=> \E i \in DOMAIN Completed : Completed[i] = t
         /\ ~t.status <=> \E i \in DOMAIN InProgress : InProgress[i] = t
  /\ InCollectionOrder(InProgress)
  /\ InCollectionOrder(Completed)

\* C12 witness: the scenario of the claim on screen: ids 1, 2, 3 with the
\* statuses false, true, false under 'All Tasks' show as [1, 3] and [2]
C12_Witness ==
  /\ ~isLoading
  /\ selectedCategory = Null
  /\ IdsOf(tasks) = <<1, 2, 3>>
  /\ [k \in DOMAIN tasks |-> tasks[k].status] = <<FALSE, TRUE, FALSE>>
  /\ IdsOf(InProgress) = <<1, 3>>
  /\ IdsOf(Completed) = <<2>>

\* the entities of the collection that reference category c, in collection order
OfCategory(c) ==
  LET ks == {k \in DOMAIN tasks : tasks[k].category_id = c}
      \* the n-th smallest index of ks
      Nth[n \in 1..Cardinality(ks)] ==
        CHOOSE k \in ks : Cardinality({m \in ks : m < k}) = n - 1
  IN [n \in 1..Cardinality(ks) |-> tasks[Nth[n]]]

\* C13: in every state filteredTasks is the list of the entities of the local
\* collection that reference the selected category, in collection order; with
\* the 'All Tasks' entry (null) selected it is the whole collection, entities
\* that reference a category the remote never returned included.
C13_ByCategory ==
  /\ selectedCategory = Null => filteredTasks = tasks
  /\ selectedCategory # Null => filteredTasks = OfCategory(selectedCategory)

\* C13 witness: a category is selected, the list shows the two tasks that
\* reference it and not the task that references an unknown category; and
\* the same collection under 'All Tasks'
C13_Witness ==
  /\ ~isLoading
  /\ selectedCategory = 1
  /\ IdsOf(tasks) = <<1, 2, 3>>
  /\ IdsOf(filteredTasks) = <<1, 3>>
  /\ \E k \in DOMAIN tasks :
       \A i \in DOMAIN categories : categories[i].id # tasks[k].category_id

Saving == Len(saveInflight)

\* C14: in the expense form at most one save request is in flight, and one is
\* in flight only while isLoading (which disables the button); the step that
\* starts the remote call sets isLoading, the step that follows the call's
\* success or failure resets it; the screen goes back only in the step that
\* follows a successful call, and after a failed call it stays on the form
\* with the title and the amount as entered.
C14_SingleSaveInFlight ==
  /\ [](Saving <= 1 /\ (Saving = 1 => formIsLoading))
  /\ [][/\ Saving' > Saving => formIsLoading'
        /\ Saving' < Saving => ~formIsLoading' /\ title' = title /\ amount' = amount
        /\ onForm' # onForm =>
             /\ ~onForm'
             /\ Saving' < Saving
             /\ last'.alert.title = "Success"
        /\ (Saving' < Saving /\ last'.alert.title # "Success") =>
             /\ onForm' /\ ErrorShown]_vars

\* C14 witness: a save has just failed: the error is shown, the form is still
\* open with its fields, the button is enabled again and nothing is in flight
C14_Witness ==
  /\ last.alert = Alert("Error", "Failed to save expense")
  /\ onForm
  /\ ~formIsLoading
  /\ Saving = 0
  /\ trim(title) # <<>> /\ ~isNaN(amount)
====
